---- MODULE Spec2Model ----
(***************************************************************************)
(* Raster mission planner and tile stitcher of TerrAInav-Sim               *)
(* (src/src/data/terrainav.py, src/src/utils/geo_helper.py).               *)
(*                                                                         *)
(* Numbers.  The code computes in floating point; the model computes on    *)
(* integer lattices:                                                       *)
(*   - geographic coordinates in lattice units "f": the world is 2^32 f    *)
(*     wide, so one pixel of the deepest zoom (22) is 4 f and one tile of  *)
(*     zoom z is 2^(32-z) f;                                               *)
(*   - projected (UTM) coordinates in units of 1/XYPerM metre;             *)
(*   - file names carry coordinates rounded to NameQ f (round(phi, 7)).    *)
(* The Mercator latitude curve and the transverse Mercator projection are  *)
(* replaced by their local linearisation around the mission, with the      *)
(* meridian convergence kept (the northing of a parallel changes with the  *)
(* easting).                                                               *)
(***************************************************************************)
EXTENDS Integers, Sequences, FiniteSets, TLC

\* ------------------------------------------------------------------ scales
\* geographic lattice units per degree (2^32 / 360)
FPerDeg == 11930465
\* geographic lattice units per metre on the ground
FPerM == 107
\* projected units per metre
XYPerM == 10000
\* lattice units per step of the 7th decimal kept in a file name
NameQ == 4
\* origin of the projected frame (central meridian / reference parallel)
LatC == 419400000
LonC == -1072600000
\* meridian convergence: northing shift per unit of easting is 1/ConvDen
ConvDen == 64

\* ------------------------------------------------------------------ arithmetic
Abs(a) == IF a < 0 THEN -a ELSE a
Max2(a, b) == IF a >= b THEN a ELSE b
Min2(a, b) == IF a <= b THEN a ELSE b

\* Python int(a / b): truncation toward zero
IntTrunc(a, b) ==
    IF (a >= 0) = (b > 0) THEN Abs(a) \div Abs(b) ELSE -(Abs(a) \div Abs(b))

\* a / b rounded to the nearest lattice point (b > 0)
RoundDiv(a, b) == (2 * a + b) \div (2 * b)

\* round(v, 7) of a coordinate: nearest multiple of NameQ, ties to even
Round7(v) ==
    LET q == v \div NameQ
        r == v % NameQ
    IN  IF 2 * r < NameQ THEN q * NameQ
        ELSE IF 2 * r > NameQ THEN (q + 1) * NameQ
        ELSE IF q % 2 = 0 THEN q * NameQ ELSE (q + 1) * NameQ

\* np.round(v, 3) of a length in metres: nearest multiple of XYPerM / 1000
Round3(v) == RoundDiv(v, XYPerM \div 1000) * (XYPerM \div 1000)

\* ------------------------------------------------------------------ GeoProjector
Conv(x) == x \div ConvDen

\* geo2utm(lat, lon, epsg) -> <<x, y>>
geo2utm(lat, lon) ==
    LET x == RoundDiv((lon - LonC) * XYPerM, FPerM)
    IN  <<x, RoundDiv((lat - LatC) * XYPerM, FPerM) - Conv(x)>>

\* utm2geo(x, y, epsg) -> <<lat, lon>>
utm2geo(x, y) ==
    <<LatC + RoundDiv((y + Conv(x)) * FPerM, XYPerM),
      LonC + RoundDiv(x * FPerM, XYPerM)>>

\* meters2geo(center, img_size, epsg) -> <<tl, br>>, img_size in metres
meters2geo(center, img_size) ==
    LET c == geo2utm(center[1], center[2])
        img_w_m == (img_size[1] * XYPerM) \div 2
        img_h_m == (img_size[2] * XYPerM) \div 2
    IN  <<utm2geo(c[1] - img_w_m, c[2] + img_h_m),
          utm2geo(c[1] + img_w_m, c[2] - img_h_m)>>

\* calc_bbox_m(center_coords, bbox_m) -> <<top_left, bottom_right>>:
\* geodesic destinations north/west and south/east of the centre
calc_bbox_m(center_coords, bbox_m) ==
    LET half_x == (bbox_m[1] * FPerM) \div 2
        half_y == (bbox_m[2] * FPerM) \div 2
    IN  <<<<center_coords[1] + half_y, center_coords[2] - half_x>>,
          <<center_coords[1] - half_y, center_coords[2] + half_x>>>>

\* ------------------------------------------------------------------ TileMath
\* consts.tile_size: the largest static image the service returns
tile_size == 640
\* get_zoom_from_bounds(..., zoom_bound=22)
zoom_bound == 22
\* side of a tile in pixels
TilePx == 256

\* the span in pixels of zoom 0 between the points latlonToPt gives for the
\* two poles (the sine of the latitude is clamped to 1 - 1E-15)
MaxPxSpanY == 1430

\* log2 of the units of a lattice in one pixel of zoom 0: the geographic
\* lattice has 2^24 f a pixel
FLog2 == 24

\* a * 2^k <= b and a * 2^k >= b, for k >= 0, a > 0, b > 0
Le2(a, b, k) == a <= b \div 2^k
Ge2(a, b, k) == a >= -((-b) \div 2^k)

\* floor(log2(a / b)) and ceil(log2(a / b)) for a > 0, b > 0
FloorLog2(a, b) ==
    IF a >= b
    THEN CHOOSE k \in 0..30 : Le2(b, a, k) /\ ~Le2(b, a, k + 1)
    ELSE -(CHOOSE k \in 1..30 : Ge2(a, b, k) /\ ~Ge2(a, b, k - 1))

CeilLog2(a, b) ==
    IF a > b
    THEN CHOOSE k \in 1..30 : Ge2(b, a, k) /\ ~Ge2(b, a, k - 1)
    ELSE -(CHOOSE k \in 0..30 : Le2(a, b, k) /\ ~Le2(a, b, k + 1))

\* int(-math.log2(max(half_pw_x, half_pw_y) / img_size) - 1) for a positive
\* span of 2^-u pixels of zoom 0: log2(img_size * 2^u / span), truncated
\* toward zero
ZoomOf(span, u) ==
    IF u - CeilLog2(span, tile_size) >= 0
    THEN u - CeilLog2(span, tile_size)
    ELSE u - FloorLog2(span, tile_size)

\* latlonToPt(lat, lon): the point in pixels of zoom 0 (in f), the Mercator
\* curve linear
latlonToPt(lat, lon) == [x |-> lon, y |-> -lat]

\* variant of zoom_and_size: a zoom equal to zoom_bound is refused as well
zoom_and_size_strict(cp_top_left, cp_bottom_right, u) ==
    LET span_x == cp_bottom_right.x - cp_top_left.x
        span_y == cp_bottom_right.y - cp_top_left.y
        span == Max2(span_x, span_y)
    IN  IF span <= 0
        THEN [err |-> "ValueError", zoom |-> 0, size |-> <<0, 0>>]
        ELSE LET zoom == ZoomOf(span, u)
                 img_w == IntTrunc(span_x * 2^Max2(zoom - u, 0),
                                   2^Max2(u - zoom, 0))
                 img_h == IntTrunc(span_y * 2^Max2(zoom - u, 0),
                                   2^Max2(u - zoom, 0))
             IN  IF zoom >= zoom_bound
                 THEN [err |-> "OutOfBounds", zoom |-> zoom,
                       size |-> <<img_w, img_h>>]
                 ELSE [err |-> "none", zoom |-> zoom,
                       size |-> <<img_w, img_h>>]

\* get_zoom_from_bounds from the two points on: half widths, zoom, size and
\* the zoom_bound test; the points in units of 2^-u pixels of zoom 0
zoom_and_size(cp_top_left, cp_bottom_right, u) ==
    LET span_x == cp_bottom_right.x - cp_top_left.x
        span_y == cp_bottom_right.y - cp_top_left.y
        span == Max2(span_x, span_y)
    IN  IF span <= 0
        THEN [err |-> "ValueError", zoom |-> 0, size |-> <<0, 0>>]
        ELSE LET zoom == ZoomOf(span, u)
                 img_w == IntTrunc(span_x * 2^Max2(zoom - u, 0),
                                   2^Max2(u - zoom, 0))
                 img_h == IntTrunc(span_y * 2^Max2(zoom - u, 0),
                                   2^Max2(u - zoom, 0))
             IN  IF zoom > zoom_bound
                 THEN [err |-> "OutOfBounds", zoom |-> zoom,
                       size |-> <<img_w, img_h>>]
                 ELSE [err |-> "none", zoom |-> zoom,
                       size |-> <<img_w, img_h>>]

\* get_zoom_from_bounds(top_left, bottom_right) ->
\*   [err |-> "none", zoom, size] | [err |-> "ValueError" | "OutOfBounds"]
get_zoom_from_bounds(top_left, bottom_right) ==
    zoom_and_size(latlonToPt(top_left[1], top_left[2]),
                  latlonToPt(bottom_right[1], bottom_right[2]), FLog2)

\* generate_tile_info(loc, zoom) -> <<tile_x, tile_y, pixel_x, pixel_y>>
\* for 1 <= zoom <= 22; a tile is 2^(32-zoom) f wide, a pixel 2^(24-zoom) f
generate_tile_info(loc, zoom) ==
    LET d == 2^(32 - zoom)
        p == 2^(24 - zoom)
        half == 2^(zoom - 1)
    IN  <<(loc[2] \div d) + half,
          ((-loc[1]) \div d) + half,
          (loc[2] % d) \div p,
          ((-loc[1]) % d) \div p>>

\* ------------------------------------------------------------------ bounds
\* worker threads of the pool that run tile tasks at the same time
MaxWorkers == 2
\* failed tile requests the tile server may answer with in one history
FailBudget == 1
\* runs of the program (config()) in one history: the first and the restarts
MaxRuns == 2
\* the box is (n + 7/10) cells wide / high, n up to these
MaxBoxX == 2
MaxBoxY == 1
\* failed tile requests in one history of the single-stitch missions
StitchFailBudget == 10
\* failed tile requests in one history of the mission of two cells: enough
\* for every tile of a cell to exhaust its retries
DegradedFailBudget == 20

\* ------------------------------------------------------------------ inputs
\* self.overlap = overlap / OvDen ("a probability value between 0 to 1")
OvDen == 100
Overlaps == {0, 25}
\* log.single_img_size (x_m, y_m): the footprint of one image, in metres
ImgSizes == {<<16, 4>>}
\* args.res_level
ResLevels == {0}
\* args.coords[0:2]
TopLeft == <<419475139, -1072548777>>

\* a box (nx + 7/10) cells wide and (ny + 7/10) cells high, south-east of
\* TopLeft
BoxOf(img, nx, ny) ==
    <<TopLeft[1], TopLeft[2],
      TopLeft[1] - (ny * img[2] * FPerM + (7 * img[2] * FPerM) \div 10),
      TopLeft[2] + (nx * img[1] * FPerM + (7 * img[1] * FPerM) \div 10)>>

MissionArgs ==
    { [coords |-> BoxOf(img, nx, ny), img |-> img, res_level |-> r, overlap |-> o] :
        img \in ImgSizes, nx \in 1..MaxBoxX, ny \in 1..MaxBoxY,
        r \in ResLevels, o \in Overlaps }

\* boxes whose bottom-right corner is not south-east of the top-left one:
\* of no width, and one and two tiles of the map zoom to the west
DegenerateBoxes ==
    LET south == TopLeft[1] - 16 * FPerM
        tile == 2^(32 - zoom_bound)
    IN  { <<TopLeft[1], TopLeft[2], south, TopLeft[2]>>,
          <<TopLeft[1], TopLeft[2], south, TopLeft[2] - tile>>,
          <<TopLeft[1], TopLeft[2], south, TopLeft[2] - 2 * tile>> }

\* the mission of one row of two cells
DegradedArgs ==
    { [coords |-> BoxOf(img, 2, 1), img |-> img, res_level |-> r, overlap |-> 0] :
        img \in ImgSizes, r \in ResLevels }

\* the missions over the box of 1 + 7/10 cells: a grid of one cell without
\* overlap, of two columns and two rows with it
FairArgs ==
    { [coords |-> BoxOf(img, 1, 1), img |-> img, res_level |-> r, overlap |-> o] :
        img \in ImgSizes, r \in ResLevels, o \in Overlaps }

\* missions of one cell, and missions over a degenerate box
StitchArgs ==
    { [coords |-> b, img |-> img, res_level |-> r, overlap |-> 0] :
        b \in DegenerateBoxes \cup {BoxOf(img, 1, 1) : img \in ImgSizes},
        img \in ImgSizes, r \in ResLevels }

\* ------------------------------------------------------------------ state
VARIABLES
    args,        \* self.args: coords (tl_lat, tl_lon, br_lat, br_lon), res_level
    overlap,     \* self.overlap, in 1/OvDen
    log,         \* self.log: single_img_size, map_size, n_raster_imgs
    files,       \* the raster directory: file name -> image written under it
    map_saved,   \* the map image of check_data exists in data_dir
    pc,          \* where the run is
    err,         \* the exception that ended the run ("none" if none)
    g,           \* locals of gen_raster_from_map
    st,          \* locals of collect_tiles
    img,         \* the image collect_tiles returned last
    failBudget,  \* failed requests the tile server may still answer with
    runsLeft,    \* runs of the program still to start
    hist         \* what the current invocation of gen_raster_from_map did

vars == <<args, overlap, log, files, map_saved, pc, err, g, st, img,
          failBudget, runsLeft, hist>>

\* ------------------------------------------------------------------ TileStitcher
\* fetch_and_paste(..., max_retries=10)
max_retries == 10

NoStitch ==
    [caller |-> "none", tl |-> <<0, 0>>, br |-> <<0, 0>>,
     zoom |-> 0, tl_info |-> <<0, 0, 0, 0>>,
     br_info |-> <<0, 0, 0, 0>>, n_tiles_x |-> 0, n_tiles_y |-> 0,
     img_w |-> 0, img_h |-> 0, err |-> "none", queue |-> <<>>,
     tasks |-> <<>>, pasted |-> {}, reported |-> {}]

NoImage == [box |-> <<0, 0, 0, 0>>, size |-> <<0, 0>>, pasted |-> {}, blank |-> {}]

\* Image.new("RGB", size): Pillow refuses a negative width or height
ImageNewFails(w, h) == w < 0 \/ h < 0

\* the tiles in the order collect_tiles submits them: rows of the index
\* range from top to bottom, each from left to right
TileQueue(tl_info, br_info) ==
    LET nx == br_info[1] - tl_info[1] + 1
        ny == br_info[2] - tl_info[2] + 1
    IN  IF nx <= 0 \/ ny <= 0 THEN <<>>
        ELSE [k \in 1..(nx * ny) |->
                <<tl_info[1] + ((k - 1) % nx), tl_info[2] + ((k - 1) \div nx)>>]

\* collect_tiles(tl, br, zoom, map_type, resolution) up to the submission of
\* the tile tasks: its locals, with err = "ValueError" when Image.new raises
collect_tiles(caller, tl, br, zoom, resolution) ==
    LET z == Min2(zoom + resolution, 22)
        tl_info == generate_tile_info(tl, z)
        br_info == generate_tile_info(br, z)
        n_tiles_x == br_info[1] - tl_info[1] + 1
        n_tiles_y == br_info[2] - tl_info[2] + 1
        img_w == Abs(br_info[3] + TilePx * (n_tiles_x - 1) - tl_info[3])
        img_h == Abs(br_info[4] + TilePx * (n_tiles_y - 1) - tl_info[4])
        fails == ImageNewFails(n_tiles_x * TilePx, n_tiles_y * TilePx)
        queue == IF fails THEN <<>> ELSE TileQueue(tl_info, br_info)
    IN  [caller |-> caller, tl |-> tl, br |-> br,
         zoom |-> z, tl_info |-> tl_info, br_info |-> br_info,
         n_tiles_x |-> n_tiles_x, n_tiles_y |-> n_tiles_y,
         img_w |-> img_w, img_h |-> img_h,
         err |-> IF fails THEN "ValueError" ELSE "none",
         queue |-> queue,
         tasks |-> [k \in 1..Len(queue) |-> [st |-> "queued", n |-> 0]],
         pasted |-> {}, reported |-> {}]

Running(s) == {k \in 1..Len(s.queue) : s.tasks[k].st = "running"}
Queued(s) == {k \in 1..Len(s.queue) : s.tasks[k].st = "queued"}

\* task k may make a request: a worker runs it, or a worker is free and it
\* is the first of the queue
CanAttempt(s, k) ==
    \/ s.tasks[k].st = "running"
    \/ /\ s.tasks[k].st = "queued"
       /\ \A m \in Queued(s) : k <= m
       /\ Cardinality(Running(s)) < MaxWorkers

\* variant of PasteOffset: every tile is pasted into the first column
PasteOffsetColumn0(s, tile) ==
    <<0, (tile[2] - s.tl_info[2]) * TilePx>>

\* where fetch_and_paste pastes tile (tile_id_x, tile_id_y)
PasteOffset(s, tile) ==
    <<(tile[1] - s.tl_info[1]) * TilePx, (tile[2] - s.tl_info[2]) * TilePx>>

\* variant of AttemptOk: the loop goes on after a pasted tile (no break)
AttemptOkNoBreak(s, k) ==
    [s EXCEPT !.tasks[k] = [st |-> IF @.n + 1 < max_retries THEN "running"
                                   ELSE "pasted",
                            n |-> @.n + 1],
              !.pasted = @ \cup {PasteOffset(s, s.queue[k])}]

\* one pass through the try block of fetch_and_paste that succeeds
AttemptOk(s, k) ==
    [s EXCEPT !.tasks[k] = [st |-> "pasted", n |-> @.n + 1],
              !.pasted = @ \cup {PasteOffset(s, s.queue[k])}]

\* variant of AttemptFail: the exhausted tile is given up silently
AttemptFailSilent(s, k) ==
    IF s.tasks[k].n + 1 < max_retries
    THEN [s EXCEPT !.tasks[k] = [st |-> "running", n |-> @.n + 1]]
    ELSE [s EXCEPT !.tasks[k] = [st |-> "exhausted", n |-> @.n + 1]]

\* one pass that raises: retry while attempt < max_retries, else report
AttemptFail(s, k) ==
    IF s.tasks[k].n + 1 < max_retries
    THEN [s EXCEPT !.tasks[k] = [st |-> "running", n |-> @.n + 1]]
    ELSE [s EXCEPT !.tasks[k] = [st |-> "exhausted", n |-> @.n + 1],
                   !.reported = @ \cup {s.queue[k]}]

\* variant of AllTerminated: the pool is left as soon as no task waits in
\* the queue (shutdown without wait)
AllStarted(s) ==
    \A k \in 1..Len(s.queue) : s.tasks[k].st # "queued"

\* leaving "with ThreadPoolExecutor() as executor": every task has ended
AllTerminated(s) ==
    \A k \in 1..Len(s.queue) : s.tasks[k].st \in {"pasted", "exhausted"}

\* variant of Crop: the window starts at the canvas origin
CropFromOrigin(s) ==
    [box |-> <<0, 0, s.img_w, s.img_h>>,
     size |-> <<s.n_tiles_x * TilePx, s.n_tiles_y * TilePx>>,
     pasted |-> s.pasted,
     blank |-> {PasteOffset(s, s.queue[k]) : k \in
                   {m \in 1..Len(s.queue) : s.tasks[m].st # "pasted"}}]

\* stitched_image.crop(...): the returned image
Crop(s) ==
    [box |-> <<s.tl_info[3], s.tl_info[4],
               s.tl_info[3] + s.img_w, s.tl_info[4] + s.img_h>>,
     size |-> <<s.n_tiles_x * TilePx, s.n_tiles_y * TilePx>>,
     pasted |-> s.pasted,
     blank |-> {PasteOffset(s, s.queue[k]) : k \in
                   {m \in 1..Len(s.queue) : s.tasks[m].st # "pasted"}}]

\* ------------------------------------------------------------------ file names
\* last_img_name: a file name, or an integer (-1: no previous image)
IntName(v) == [kind |-> "int", v |-> v]
StrName(name) == [kind |-> "str", name |-> name]

\* variant of OutName: the name carries the row and the latitude only
OutNameRow(i, j, phi, lamda, raster_zoom) ==
    [i |-> 0, j |-> j, phi |-> Round7(phi), lamda |-> 0, zoom |-> raster_zoom]

\* str(i) + '_' + str(j) + '_' + str(round(phi, 7)) + '_'
\*   + str(round(lamda, 7)) + '_' + str(raster_zoom) + '.jpg'
OutName(i, j, phi, lamda, raster_zoom) ==
    [i |-> i, j |-> j, phi |-> Round7(phi), lamda |-> Round7(lamda),
     zoom |-> raster_zoom]

\* natsorted(): the numbers of a name compare as unsigned integers, from
\* the left: column, row, latitude, longitude, zoom
NatKey(name) == <<name.i, name.j, Abs(name.phi), Abs(name.lamda), name.zoom>>

RECURSIVE SeqLess(_, _, _)
SeqLess(a, b, k) ==
    IF k > Len(a) THEN FALSE
    ELSE IF a[k] # b[k] THEN a[k] < b[k]
    ELSE SeqLess(a, b, k + 1)

NatLess(a, b) == SeqLess(NatKey(a), NatKey(b), 1)

\* sorted_imgs[0] of natsorted(glob(...), reverse=True)
LatestOf(names) == CHOOSE a \in names : \A b \in names \ {a} : NatLess(b, a)

\* latest_image_name of complete_download
latest_image_name(names) ==
    IF names = {} THEN IntName(-1) ELSE StrName(LatestOf(names))

\* ------------------------------------------------------------------ planner
NoGen ==
    [top_left |-> <<0, 0>>, bottom_right |-> <<0, 0>>, ov |-> 0,
     raster_zoom |-> 0, x_left |-> 0, i_last |-> 0, j_last |-> 0,
     i |-> 0, j |-> 0, x |-> 0, y |-> 0, phi |-> 0, lamda |-> 0]

NoHist ==
    [last |-> IntName(0), dirAtCall |-> {}, written |-> <<>>, stitched |-> <<>>,
     fetched |-> FALSE, prompted |-> FALSE, response |-> "none"]

\* variant of NRasterImgs: the quotient rounded up instead of truncated
NRasterImgsCeil(map_m, img_m, ov) ==
    -((-(map_m * OvDen)) \div (img_m * XYPerM * (OvDen - ov)))

\* int(map_size_m / (single_img_size_m * (1 - self.overlap)))
NRasterImgs(map_m, img_m, ov) ==
    IntTrunc(map_m * OvDen, img_m * XYPerM * (OvDen - ov))

\* raster_w * (100 - overlap) / 100, in projected units
Step(raster_w, ov) ==
    raster_w * ((XYPerM * (100 * OvDen - ov)) \div (100 * OvDen))

\* 0.02 degrees
Deg002 == FPerDeg \div 50

\* variant of OutOfBoundsTest: both limits must be passed, not either
OutOfBoundsTestBoth(phi, lamda, bottom_right_coords, raster_wx, raster_wy) ==
    /\ phi < bottom_right_coords[1] - raster_wx * FPerDeg - Deg002
    /\ lamda > bottom_right_coords[2] + raster_wy * FPerDeg + Deg002

\* the bounds test at the head of the cell loop
OutOfBoundsTest(phi, lamda, bottom_right_coords, raster_wx, raster_wy) ==
    \/ phi < bottom_right_coords[1] - raster_wx * FPerDeg - Deg002
    \/ lamda > bottom_right_coords[2] + raster_wy * FPerDeg + Deg002

InitWith(argset, fails, runs) ==
    \E a \in argset :
        /\ args = [coords |-> a.coords, res_level |-> a.res_level]
        /\ overlap = a.overlap
        /\ log = [single_img_size |-> [x_m |-> a.img[1], y_m |-> a.img[2]],
                  map_size |-> [x_m |-> 0, y_m |-> 0, zoom |-> 0],
                  n_raster_imgs |-> [x |-> 0, y |-> 0]]
        /\ files = <<>>
        /\ map_saved = FALSE
        /\ pc = "init"
        /\ err = "none"
        /\ g = NoGen
        /\ st = NoStitch
        /\ img = NoImage
        /\ failBudget = fails
        /\ runsLeft = runs
        /\ hist = NoHist

Init == InitWith(MissionArgs, FailBudget, MaxRuns)

Raise(e) ==
    /\ pc' = "raised"
    /\ err' = e
    /\ st' = NoStitch

\* config() up to the stitch of the map: check_data
check_data ==
    /\ pc \in {"init", "done", "raised", "killed"}
    /\ runsLeft > 0
    /\ runsLeft' = runsLeft - 1
    /\ g' = NoGen /\ hist' = NoHist /\ img' = NoImage
    /\ UNCHANGED <<args, overlap, files, map_saved, failBudget>>
    /\ LET top_left == <<args.coords[1], args.coords[2]>>
           bottom_right == <<args.coords[3], args.coords[4]>>
           zr == get_zoom_from_bounds(top_left, bottom_right)
           map_tlm == geo2utm(top_left[1], top_left[2])
           map_brm == geo2utm(bottom_right[1], bottom_right[2])
           x_m == Round3(Abs(map_tlm[1] - map_brm[1]))
           y_m == Round3(Abs(map_tlm[2] - map_brm[2]))
           s == collect_tiles("check_data", top_left, bottom_right,
                              zr.zoom, args.res_level)
       IN  IF zr.err # "none"
           THEN Raise(zr.err) /\ UNCHANGED log
           ELSE IF overlap = OvDen
           THEN Raise("ZeroDivisionError")
                /\ log' = [log EXCEPT !.map_size =
                              [x_m |-> x_m, y_m |-> y_m, zoom |-> zr.zoom]]
           ELSE /\ log' = [log EXCEPT
                     !.map_size = [x_m |-> x_m, y_m |-> y_m, zoom |-> zr.zoom],
                     !.n_raster_imgs =
                        [x |-> NRasterImgs(x_m, log.single_img_size.x_m, overlap),
                         y |-> NRasterImgs(y_m, log.single_img_size.y_m, overlap)]]
                /\ IF s.err # "none" THEN Raise(s.err)
                   ELSE pc' = "stitch" /\ err' = "none" /\ st' = s

\* one request of a tile task that succeeds: the tile is pasted
FetchOk ==
    /\ pc = "stitch"
    /\ \E k \in 1..Len(st.queue) :
          /\ CanAttempt(st, k)
          /\ st' = AttemptOk(st, k)
    /\ hist' = [hist EXCEPT !.fetched = @ \/ st.caller = "walk"]
    /\ UNCHANGED <<args, overlap, log, files, map_saved, pc, err, g, img,
                   failBudget, runsLeft>>

\* one request of a tile task that fails
FetchFail ==
    /\ pc = "stitch"
    /\ failBudget > 0
    /\ \E k \in 1..Len(st.queue) :
          /\ CanAttempt(st, k)
          /\ st' = AttemptFail(st, k)
    /\ failBudget' = failBudget - 1
    /\ hist' = [hist EXCEPT !.fetched = @ \/ st.caller = "walk"]
    /\ UNCHANGED <<args, overlap, log, files, map_saved, pc, err, g, img,
                   runsLeft>>

\* collect_tiles returns to check_data, which saves the map image
check_data_return ==
    /\ pc = "stitch"
    /\ st.caller = "check_data"
    /\ AllTerminated(st)
    /\ img' = Crop(st)
    /\ st' = NoStitch
    /\ map_saved' = TRUE
    /\ pc' = "sized"
    /\ UNCHANGED <<args, overlap, log, files, err, g, failBudget, runsLeft, hist>>

\* the Starting branch: cursor on the top-left corner, indices (0, 0)
StartCursor(top_left_coords, tlm) ==
    [i |-> 0, j |-> 0, x |-> tlm[1], y |-> tlm[2],
     phi |-> top_left_coords[1], lamda |-> top_left_coords[2]]

\* variant of ResumeCursor: at the end of a row x stays at the last cell's
\* position instead of returning to x_left
ResumeCursorNoReset(name, n_images_x, x_left, raster_wx, raster_wy, ov) ==
    LET xy == geo2utm(name.phi, name.lamda)
        nxt == IF name.i < n_images_x - 1
               THEN [i |-> name.i + 1, j |-> name.j,
                     x |-> xy[1] + Step(raster_wx, ov), y |-> xy[2]]
               ELSE [i |-> 0, j |-> name.j + 1,
                     x |-> xy[1], y |-> xy[2] - Step(raster_wy, ov)]
        geo == utm2geo(nxt.x, nxt.y)
    IN  [i |-> nxt.i, j |-> nxt.j, x |-> nxt.x, y |-> nxt.y,
         phi |-> geo[1], lamda |-> geo[2]]

\* the Resuming branch: the cell after the one the last file names
ResumeCursor(name, n_images_x, x_left, raster_wx, raster_wy, ov) ==
    LET xy == geo2utm(name.phi, name.lamda)
        nxt == IF name.i < n_images_x - 1
               THEN [i |-> name.i + 1, j |-> name.j,
                     x |-> xy[1] + Step(raster_wx, ov), y |-> xy[2]]
               ELSE [i |-> 0, j |-> name.j + 1,
                     x |-> x_left, y |-> xy[2] - Step(raster_wy, ov)]
        geo == utm2geo(nxt.x, nxt.y)
    IN  [i |-> nxt.i, j |-> nxt.j, x |-> nxt.x, y |-> nxt.y,
         phi |-> geo[1], lamda |-> geo[2]]

\* variant of AllDownloaded: the indices compared without the + 1
AllDownloadedNoInc(name, n_images_x, n_images_y) ==
    <<name.i, name.j>> = <<n_images_x, n_images_y>>

\* [i_last + 1, j_last + 1] == [n_images_x, n_images_y]
AllDownloaded(name, n_images_x, n_images_y) ==
    <<name.i + 1, name.j + 1>> = <<n_images_x, n_images_y>>

\* gen_raster_from_map(top_left_coords, bottom_right_coords, overlap,
\* last_img_name) up to the prompt
gen_raster_from_map(top_left_coords, bottom_right_coords, ov, last_img_name) ==
    LET raster_wx == log.single_img_size.x_m
        raster_wy == log.single_img_size.y_m
        box == meters2geo(<<args.coords[1], args.coords[2]>>,
                          <<raster_wx, raster_wy>>)
        zr == get_zoom_from_bounds(box[1], box[2])
        tlm == geo2utm(box[1][1], box[1][2])
        n_images_x == log.n_raster_imgs.x
        n_images_y == log.n_raster_imgs.y
        x_left == tlm[1]
        base == [NoGen EXCEPT !.top_left = top_left_coords,
                              !.bottom_right = bottom_right_coords,
                              !.ov = ov, !.raster_zoom = zr.zoom,
                              !.x_left = x_left]
        at(c) == [base EXCEPT !.i_last = c.i, !.j_last = c.j, !.i = c.i,
                              !.j = c.j, !.x = c.x, !.y = c.y,
                              !.phi = c.phi, !.lamda = c.lamda]
    IN  /\ hist' = [NoHist EXCEPT !.last = last_img_name,
                                 !.dirAtCall = DOMAIN files]
        /\ UNCHANGED <<args, overlap, log, files, map_saved, img,
                       failBudget, runsLeft>>
        /\ IF zr.err # "none"
           THEN Raise(zr.err) /\ g' = base
           ELSE IF last_img_name.kind = "int" /\ last_img_name.v # -1
           THEN Raise("TypeError") /\ g' = base
           ELSE IF last_img_name.kind = "str"
           THEN IF AllDownloaded(last_img_name.name, n_images_x, n_images_y)
                THEN /\ pc' = "done" /\ err' = "none" /\ st' = NoStitch
                     /\ g' = [base EXCEPT !.i_last = last_img_name.name.i,
                                          !.j_last = last_img_name.name.j]
                ELSE /\ pc' = "prompt" /\ err' = "none" /\ st' = NoStitch
                     /\ g' = at(ResumeCursor(last_img_name.name, n_images_x,
                                             x_left, raster_wx, raster_wy, ov))
           ELSE /\ pc' = "prompt" /\ err' = "none" /\ st' = NoStitch
                /\ g' = at(StartCursor(top_left_coords, tlm))

\* config() after check_data: complete_download
complete_download ==
    /\ pc = "sized"
    /\ gen_raster_from_map(<<args.coords[1], args.coords[2]>>,
                           <<args.coords[3], args.coords[4]>>,
                           overlap, latest_image_name(DOMAIN files))

\* bottom_right_coords a caller of gen_raster_from_map may pass that lie
\* north or west of the walk: the cursor leaves them at row 1 / column 1
DriftBR ==
    LET wx == log.single_img_size.x_m
        wy == log.single_img_size.y_m
    IN  { <<args.coords[3],
            args.coords[2] + (wx * FPerM) \div 4 - wy * FPerDeg - Deg002>>,
          <<args.coords[1] - (wy * FPerM) \div 4 + wx * FPerDeg + Deg002,
            args.coords[4]>> }

\* a direct call of gen_raster_from_map after check_data, the last image
\* name given as -1 or left to its default
gen_raster_direct ==
    /\ pc = "sized"
    /\ \E br \in {<<args.coords[3], args.coords[4]>>} \cup DriftBR,
          last \in {IntName(-1), IntName(-10)} :
          gen_raster_from_map(<<args.coords[1], args.coords[2]>>, br,
                              overlap, last)

\* what the user may type at the prompt
Responses == {"y", "yes", " Y ", "YES", "n", ""}

\* input().strip().lower()
StripLower(r) ==
    CASE r = " Y " -> "y"
      [] r = "YES" -> "yes"
      [] OTHER -> r

\* variant of Confirmed: every answer but the empty one confirms
ConfirmedNonEmpty(r) == StripLower(r) # ""

\* response in ["y", "yes"]
Confirmed(r) == StripLower(r) \in {"y", "yes"}

\* the answer to "Do you want to proceed?"
respond ==
    /\ pc = "prompt"
    /\ \E r \in Responses :
          /\ hist' = [hist EXCEPT !.prompted = TRUE, !.response = r]
          /\ IF Confirmed(r) /\ g.j_last < log.n_raster_imgs.y
             THEN pc' = "cell"
             ELSE pc' = "done"
    /\ UNCHANGED <<args, overlap, log, files, map_saved, err, g, st, img,
                   failBudget, runsLeft>>

\* variant of walk_cell: a bounds violation removes the files of the walk
walk_cell_cleanup ==
    /\ pc = "cell"
    /\ g.i < log.n_raster_imgs.x
    /\ UNCHANGED <<args, overlap, log, map_saved, g, img, failBudget, runsLeft>>
    /\ LET bbox_m == <<log.single_img_size.x_m, log.single_img_size.y_m>>
           bb == calc_bbox_m(<<g.phi, g.lamda>>, bbox_m)
           s == collect_tiles("walk", bb[1], bb[2], g.raster_zoom,
                              args.res_level)
       IN  IF OutOfBoundsTest(g.phi, g.lamda, g.bottom_right,
                              bbox_m[1], bbox_m[2])
           THEN /\ Raise("OutOfBounds") /\ UNCHANGED hist
                /\ files' = [n \in DOMAIN files \cap hist.dirAtCall |-> files[n]]
           ELSE IF s.err # "none"
           THEN Raise(s.err) /\ UNCHANGED <<hist, files>>
           ELSE /\ pc' = "stitch" /\ err' = "none" /\ st' = s
                /\ UNCHANGED files
                /\ hist' = [hist EXCEPT !.stitched =
                               Append(@, [i |-> g.i, j |-> g.j,
                                          phi |-> g.phi, lamda |-> g.lamda])]

\* variant of walk_cell: the cell is stitched at the zoom of the map image
walk_cell_map_zoom ==
    /\ pc = "cell"
    /\ g.i < log.n_raster_imgs.x
    /\ UNCHANGED <<args, overlap, log, files, map_saved, g, img,
                   failBudget, runsLeft>>
    /\ LET bbox_m == <<log.single_img_size.x_m, log.single_img_size.y_m>>
           bb == calc_bbox_m(<<g.phi, g.lamda>>, bbox_m)
           s == collect_tiles("walk", bb[1], bb[2], log.map_size.zoom,
                              args.res_level)
       IN  IF OutOfBoundsTest(g.phi, g.lamda, g.bottom_right,
                              bbox_m[1], bbox_m[2])
           THEN Raise("OutOfBounds") /\ UNCHANGED hist
           ELSE IF s.err # "none"
           THEN Raise(s.err) /\ UNCHANGED hist
           ELSE /\ pc' = "stitch" /\ err' = "none" /\ st' = s
                /\ hist' = [hist EXCEPT !.stitched =
                               Append(@, [i |-> g.i, j |-> g.j,
                                          phi |-> g.phi, lamda |-> g.lamda])]

\* head of the while loop with i < n_images_x: the bounds test, then the
\* stitch of the cell is started
walk_cell ==
    /\ pc = "cell"
    /\ g.i < log.n_raster_imgs.x
    /\ UNCHANGED <<args, overlap, log, files, map_saved, g, img,
                   failBudget, runsLeft>>
    /\ LET bbox_m == <<log.single_img_size.x_m, log.single_img_size.y_m>>
           bb == calc_bbox_m(<<g.phi, g.lamda>>, bbox_m)
           s == collect_tiles("walk", bb[1], bb[2], g.raster_zoom,
                              args.res_level)
       IN  IF OutOfBoundsTest(g.phi, g.lamda, g.bottom_right,
                              bbox_m[1], bbox_m[2])
           THEN Raise("OutOfBounds") /\ UNCHANGED hist
           ELSE IF s.err # "none"
           THEN Raise(s.err) /\ UNCHANGED hist
           ELSE /\ pc' = "stitch" /\ err' = "none" /\ st' = s
                /\ hist' = [hist EXCEPT !.stitched =
                               Append(@, [i |-> g.i, j |-> g.j,
                                          phi |-> g.phi, lamda |-> g.lamda])]

\* variant of cell_return: the column index is not advanced
cell_return_same_column ==
    /\ pc = "stitch"
    /\ st.caller = "walk"
    /\ AllTerminated(st)
    /\ LET out_name == OutName(g.i, g.j, g.phi, g.lamda, g.raster_zoom)
           x == g.x + Step(log.single_img_size.x_m, g.ov)
       IN  /\ img' = Crop(st)
           /\ files' = [n \in DOMAIN files \cup {out_name} |->
                           IF n = out_name THEN Crop(st) ELSE files[n]]
           /\ hist' = [hist EXCEPT !.written = Append(@, out_name)]
           /\ g' = [g EXCEPT !.x = x, !.lamda = utm2geo(x, g.y)[2]]
    /\ st' = NoStitch
    /\ pc' = "cell"
    /\ UNCHANGED <<args, overlap, log, map_saved, err, failBudget, runsLeft>>

\* variant of cell_return: an image without a pasted tile is not saved
cell_return_skip_blank ==
    /\ pc = "stitch"
    /\ st.caller = "walk"
    /\ AllTerminated(st)
    /\ LET out_name == OutName(g.i, g.j, g.phi, g.lamda, g.raster_zoom)
           x == g.x + Step(log.single_img_size.x_m, g.ov)
       IN  /\ img' = Crop(st)
           /\ IF st.pasted = {}
              THEN UNCHANGED <<files, hist>>
              ELSE /\ files' = [n \in DOMAIN files \cup {out_name} |->
                                  IF n = out_name THEN Crop(st) ELSE files[n]]
                   /\ hist' = [hist EXCEPT !.written = Append(@, out_name)]
           /\ g' = [g EXCEPT !.x = x, !.lamda = utm2geo(x, g.y)[2],
                             !.i = @ + 1]
    /\ st' = NoStitch
    /\ pc' = "cell"
    /\ UNCHANGED <<args, overlap, log, map_saved, err, failBudget, runsLeft>>

\* collect_tiles returns to the walk: the image is saved, the cursor steps east
cell_return ==
    /\ pc = "stitch"
    /\ st.caller = "walk"
    /\ AllTerminated(st)
    /\ LET out_name == OutName(g.i, g.j, g.phi, g.lamda, g.raster_zoom)
           x == g.x + Step(log.single_img_size.x_m, g.ov)
       IN  /\ img' = Crop(st)
           /\ files' = [n \in DOMAIN files \cup {out_name} |->
                           IF n = out_name THEN Crop(st) ELSE files[n]]
           /\ hist' = [hist EXCEPT !.written = Append(@, out_name)]
           /\ g' = [g EXCEPT !.x = x, !.lamda = utm2geo(x, g.y)[2],
                             !.i = @ + 1]
    /\ st' = NoStitch
    /\ pc' = "cell"
    /\ UNCHANGED <<args, overlap, log, map_saved, err, failBudget, runsLeft>>

\* variant of walk_row_end: the row index is not advanced
walk_row_end_same_row ==
    /\ pc = "cell"
    /\ g.i >= log.n_raster_imgs.x
    /\ LET y == g.y - Step(log.single_img_size.y_m, g.ov)
           geo == utm2geo(g.x_left, y)
       IN  IF g.j + 1 < log.n_raster_imgs.y
           THEN /\ g' = [g EXCEPT !.y = y, !.x = g.x_left, !.phi = geo[1],
                                  !.lamda = geo[2], !.i = 0]
                /\ pc' = "cell"
           ELSE /\ g' = [g EXCEPT !.y = y, !.x = g.x_left, !.phi = geo[1],
                                  !.lamda = geo[2]]
                /\ pc' = "done"
    /\ UNCHANGED <<args, overlap, log, files, map_saved, err, st, img,
                   failBudget, runsLeft, hist>>

\* end of a row: step south, back to the left edge, next row or the end
walk_row_end ==
    /\ pc = "cell"
    /\ g.i >= log.n_raster_imgs.x
    /\ LET y == g.y - Step(log.single_img_size.y_m, g.ov)
           geo == utm2geo(g.x_left, y)
       IN  IF g.j + 1 < log.n_raster_imgs.y
           THEN /\ g' = [g EXCEPT !.y = y, !.x = g.x_left, !.phi = geo[1],
                                  !.lamda = geo[2], !.j = @ + 1, !.i = 0]
                /\ pc' = "cell"
           ELSE /\ g' = [g EXCEPT !.y = y, !.x = g.x_left, !.phi = geo[1],
                                  !.lamda = geo[2]]
                /\ pc' = "done"
    /\ UNCHANGED <<args, overlap, log, files, map_saved, err, st, img,
                   failBudget, runsLeft, hist>>

\* the process is terminated from outside
kill ==
    /\ pc \in {"stitch", "sized", "prompt", "cell"}
    /\ pc' = "killed"
    /\ err' = "none" /\ g' = NoGen /\ st' = NoStitch /\ img' = NoImage
    /\ hist' = NoHist
    /\ UNCHANGED <<args, overlap, log, files, map_saved, failBudget, runsLeft>>

Next ==
    \/ check_data
    \/ FetchOk
    \/ FetchFail
    \/ check_data_return
    \/ complete_download
    \/ gen_raster_direct
    \/ respond
    \/ walk_cell
    \/ cell_return
    \/ walk_row_end
    \/ kill

Spec == Init /\ [][Next]_vars

\* one run over a mission of StitchArgs, the tile server free to fail a tile
\* on every attempt
InitStitch == InitWith(StitchArgs, StitchFailBudget, 1)

SpecStitch == InitStitch /\ [][Next]_vars

\* what the code's scheduling guarantees: a tile request returns
\* (requests.get answers or raises), and the interpreter goes on with the
\* loop of the walk
Fairness ==
    /\ WF_vars(FetchOk \/ FetchFail)
    /\ WF_vars(walk_cell)
    /\ WF_vars(cell_return)
    /\ WF_vars(walk_row_end)

\* a first run and one restart over the missions of FairArgs
InitFair == InitWith(FairArgs, FailBudget, 2)

SpecFair == InitFair /\ [][Next]_vars /\ Fairness

\* two runs over the mission of DegradedArgs, the tile server free to fail
\* every tile of a cell on every attempt
InitDegraded == InitWith(DegradedArgs, DegradedFailBudget, 2)

SpecDegraded == InitDegraded /\ [][Next]_vars

\* ------------------------------------------------------------------ single calls
\* The functions of geo_helper called once on an input: args holds the
\* arguments of the call, log the value returned, err the exception raised.

\* spans of a box in pixels of zoom 0 (u = 0): a box spans up to 256 pixels
\* from west to east and, between the two poles, up to MaxPxSpanY pixels
\* from north to south
PxSpansX == {-3, 0, 1, 100, 256}
PxSpansY == {-3, 0, 1, 100, 320, 639, 640, 641, 715, 1279, 1280, 1281, MaxPxSpanY}
\* spans of a box in f (u = FLog2) around the spans of zoom_bound
FSpans == {-5, 0, 1, 2, 639, 640, 641, 1279, 1280, 1281, 2559, 2560, 2561, 5000}

ZoomCalls ==
    { [fn |-> "get_zoom_from_bounds", u |-> 0,
       cp_top_left |-> [x |-> 0, y |-> -MaxPxSpanY \div 2 + 128],
       cp_bottom_right |-> [x |-> sx, y |-> -MaxPxSpanY \div 2 + 128 + sy]] :
        sx \in PxSpansX, sy \in PxSpansY }
    \cup
    { [fn |-> "get_zoom_from_bounds", u |-> FLog2,
       cp_top_left |-> latlonToPt(TopLeft[1], TopLeft[2]),
       cp_bottom_right |-> latlonToPt(TopLeft[1] - sy, TopLeft[2] + sx)] :
        sx \in FSpans, sy \in FSpans }

\* 1000 * np.tan(np.radians(fov_d / 2)) for the fields of view of the
\* model; at 180 degrees the float is finite and huge (about 1.6E16), which
\* the model caps
TanHalfMilli(fov_d) ==
    CASE fov_d = 60 -> 577
      [] fov_d = 90 -> 1000
      [] fov_d = 120 -> 1732
      [] fov_d = 180 -> 200000
      [] fov_d = 200 -> -5671
      [] fov_d = 270 -> -1000

\* the hypotenuse of an aspect ratio a : b (sin(arctan(a / b)) = a / hyp)
Hyp(ar) == CHOOSE h \in 1..100 : h * h = ar[1] * ar[1] + ar[2] * ar[2]

\* get_map_dim_m(fov_d, agl_m, aspect_ratio) -> <<width, height, agl_m>>,
\* width and height in millimetres
get_map_dim_m(fov_d, agl_m, aspect_ratio) ==
    LET d_m == 2 * agl_m * TanHalfMilli(fov_d)
    IN  <<RoundDiv(d_m * aspect_ratio[1], Hyp(aspect_ratio)),
          RoundDiv(d_m * aspect_ratio[2], Hyp(aspect_ratio)),
          agl_m>>

MapDimCalls ==
    { [fn |-> "get_map_dim_m", fov_d |-> f, agl_m |-> a, aspect_ratio |-> ar] :
        f \in {60, 90, 120, 180, 200, 270}, a \in {-120, 0, 1, 120},
        ar \in {<<4, 3>>, <<3, 4>>} }

\* variant of get_utm_epsg: the equator counted to the southern hemisphere
get_utm_epsg_south0(coords) ==
    LET zone_number == IntTrunc(coords[2] + 1800, 60) + 1
    IN  IF coords[1] > 0 THEN 32600 + zone_number ELSE 32700 + zone_number

\* get_utm_epsg(coords) -> the number of the code "EPSG:326zz" / "EPSG:327zz";
\* coords = <<lat, lon>> in tenths of a degree
get_utm_epsg(coords) ==
    LET zone_number == IntTrunc(coords[2] + 1800, 60) + 1
    IN  IF coords[1] >= 0 THEN 32600 + zone_number ELSE 32700 + zone_number

\* GeoPoints in tenths of a degree, at the edges of zones and hemispheres
EpsgCalls ==
    { [fn |-> "get_utm_epsg", coords |-> <<lat, lon>>] :
        lat \in {-900, -450, -1, 0, 1, 420, 900},
        lon \in {-1800, -1799, -1741, -1740, -1739, -1073, -61, -60, -59, -1,
                 0, 1, 59, 60, 61, 1739, 1740, 1799, 1800} }

InitCall(calls) ==
    /\ args \in calls
    /\ overlap = 0
    /\ log = [fn |-> "none"]
    /\ files = <<>>
    /\ map_saved = FALSE
    /\ pc = "call"
    /\ err = "none"
    /\ g = NoGen
    /\ st = NoStitch
    /\ img = NoImage
    /\ failBudget = 0
    /\ runsLeft = 0
    /\ hist = NoHist

\* the call returns value v / raises e
Return(v) ==
    /\ pc' = "returned"
    /\ log' = v
    /\ UNCHANGED <<args, overlap, files, map_saved, err, g, st, img,
                   failBudget, runsLeft, hist>>

RaiseFromCall(e) ==
    /\ pc' = "raised"
    /\ err' = e
    /\ UNCHANGED <<args, overlap, log, files, map_saved, g, st, img,
                   failBudget, runsLeft, hist>>

call_get_zoom_from_bounds ==
    /\ pc = "call"
    /\ args.fn = "get_zoom_from_bounds"
    /\ LET r == zoom_and_size(args.cp_top_left, args.cp_bottom_right, args.u)
       IN  IF r.err # "none" THEN RaiseFromCall(r.err)
           ELSE Return([fn |-> "get_zoom_from_bounds",
                        zoom |-> r.zoom, size |-> r.size])

\* get_map_dim_m has no raise statement
call_get_map_dim_m ==
    /\ pc = "call"
    /\ args.fn = "get_map_dim_m"
    /\ Return([fn |-> "get_map_dim_m",
               dim |-> get_map_dim_m(args.fov_d, args.agl_m, args.aspect_ratio)])

call_get_utm_epsg ==
    /\ pc = "call"
    /\ args.fn = "get_utm_epsg"
    /\ Return([fn |-> "get_utm_epsg", code |-> get_utm_epsg(args.coords)])

NextCall ==
    \/ call_get_zoom_from_bounds
    \/ call_get_map_dim_m
    \/ call_get_utm_epsg

SpecCall ==
    InitCall(ZoomCalls \cup MapDimCalls \cup EpsgCalls) /\ [][NextCall]_vars

\* ------------------------------------------------------------------ the grid
n_images_x == log.n_raster_imgs.x
n_images_y == log.n_raster_imgs.y

\* row-major index of cell (c, r)
Idx(c, r) == r * n_images_x + c

GridCells == (0..(n_images_x - 1)) \X (0..(n_images_y - 1))

CellOf(name) == <<name.i, name.j>>
CellsOf(names) == {CellOf(n) : n \in names}

RowMajorBefore(a, b) == a.j < b.j \/ (a.j = b.j /\ a.i < b.i)

\* the invocation got past the prompt with a confirmation
ConfirmedWalk == hist.prompted /\ Confirmed(hist.response)

\* ------------------------------------------------------------------ properties

\* C2: within one invocation of gen_raster_from_map the cells are written
\* in strict row-major order: of two files written, the earlier one has the
\* smaller row, or the same row and the smaller column.
C2_RowMajorOrder ==
    \A a, b \in 1..Len(hist.written) :
        a < b => RowMajorBefore(hist.written[a], hist.written[b])

\* a walk that wrote the end of one row and then the start of the next
C2_Witness ==
    \E a \in 1..Len(hist.written) :
        /\ a + 1 <= Len(hist.written)
        /\ hist.written[a].i > hist.written[a + 1].i
        /\ hist.written[a].j < hist.written[a + 1].j

\* the cells a walk that starts at (g.i_last, g.j_last) has to produce
CellsFromCursor ==
    {c \in GridCells : Idx(c[1], c[2]) >= Idx(g.i_last, g.j_last)}

\* floor(W / (w * (1 - o))), W in projected units, w in metres, o in 1/OvDen
FloorCells(map_m, img_m, ov) ==
    (map_m * OvDen) \div (img_m * XYPerM * (OvDen - ov))

\* C3: a confirmed walk that starts at cursor (c0, r0) and is not aborted
\* writes exactly one file for every cell of the grid whose row-major index
\* is at least that of (c0, r0) and no file for another cell; from an empty
\* directory that is cols x rows files, cols = floor(W / (w (1 - o))) and
\* rows = floor(H / (h (1 - o))).
C3_ExactCells ==
    (pc = "done" /\ ConfirmedWalk) =>
        /\ CellsOf({hist.written[k] : k \in 1..Len(hist.written)})
              = CellsFromCursor
        /\ Len(hist.written) = Cardinality(CellsFromCursor)
        /\ \A k \in 1..Len(hist.written) : hist.written[k] \in DOMAIN files
        /\ hist.dirAtCall = {} =>
              /\ n_images_x = FloorCells(log.map_size.x_m,
                                         log.single_img_size.x_m, overlap)
              /\ n_images_y = FloorCells(log.map_size.y_m,
                                         log.single_img_size.y_m, overlap)
              /\ Cardinality(DOMAIN files) = n_images_x * n_images_y
              /\ Len(hist.written) = n_images_x * n_images_y

\* a resumed walk that finished after more than one cell, none of them the
\* first of the grid
C3_Witness ==
    /\ pc = "done" /\ ConfirmedWalk
    /\ hist.dirAtCall # {}
    /\ Idx(g.i_last, g.j_last) > 0
    /\ Len(hist.written) >= 2

\* C5: when the latest file name carries (col + 1, row + 1) = (cols, rows),
\* gen_raster_from_map returns without a prompt, without a tile request and
\* without writing any file.
C5_CompleteShortCircuit ==
    (hist.last.kind = "str"
       /\ <<hist.last.name.i + 1, hist.last.name.j + 1>>
             = <<n_images_x, n_images_y>>) =>
        /\ pc = "done"
        /\ err = "none"
        /\ ~hist.prompted
        /\ ~hist.fetched
        /\ hist.stitched = <<>>
        /\ hist.written = <<>>
        /\ st = NoStitch
        /\ DOMAIN files = hist.dirAtCall

\* a run that found the last cell of the grid among the files of earlier runs
C5_Witness ==
    /\ pc = "done"
    /\ hist.last.kind = "str"
    /\ hist.last.name \in hist.dirAtCall
    /\ hist.last.name.i = n_images_x - 1
    /\ hist.last.name.j = n_images_y - 1
    /\ Cardinality(hist.dirAtCall) >= 2

\* the cursor (phi, lamda) lies beyond bottom_right_coords by more than the
\* tolerance of the walk: raster_wx + 0.02 south, raster_wy + 0.02 east
BeyondTolerance(phi, lamda) ==
    LET tol_lat == log.single_img_size.x_m * FPerDeg + FPerDeg \div 50
        tol_lon == log.single_img_size.y_m * FPerDeg + FPerDeg \div 50
    IN  \/ g.bottom_right[1] - phi > tol_lat
        \/ lamda - g.bottom_right[2] > tol_lon

\* C6: whenever the cursor at the start of a cell lies beyond bottom-right
\* plus the tolerance, gen_raster_from_map raises OutOfBounds before the
\* stitch or the file of that cell or of a later cell: no cell was stitched
\* or written from such a cursor, and a walk that raised stands at such a
\* cursor with the cell neither stitched nor written.
C6_BoundsEnforcement ==
    /\ \A k \in 1..Len(hist.stitched) :
          ~BeyondTolerance(hist.stitched[k].phi, hist.stitched[k].lamda)
    /\ (pc = "stitch" /\ st.caller = "walk") => ~BeyondTolerance(g.phi, g.lamda)
    /\ (pc = "raised" /\ err = "OutOfBounds") =>
          /\ BeyondTolerance(g.phi, g.lamda)
          /\ st = NoStitch
          /\ \A k \in 1..Len(hist.stitched) :
                <<hist.stitched[k].i, hist.stitched[k].j>> # <<g.i, g.j>>
          /\ \A k \in 1..Len(hist.written) :
                CellOf(hist.written[k]) # <<g.i, g.j>>
          /\ Len(hist.written) = Len(hist.stitched)

\* the walk raised OutOfBounds in the middle of the grid, after it had
\* written cells
C6_Witness ==
    /\ pc = "raised" /\ err = "OutOfBounds"
    /\ BeyondTolerance(g.phi, g.lamda)
    /\ Len(hist.written) >= 1
    /\ Idx(g.i, g.j) < n_images_x * n_images_y

\* C7: when the walk aborts with a bounds violation, the files written for
\* the cells before it stay present and unchanged (the abort touches no
\* file), and the run that follows derives its cursor from the latest of
\* them.
C7_AbortKeepsFiles ==
    [][/\ (pc = "cell" /\ pc' = "raised" /\ err' = "OutOfBounds") =>
             /\ files' = files
             /\ \A k \in 1..Len(hist.written) : hist.written[k] \in DOMAIN files'
             /\ hist.dirAtCall \subseteq DOMAIN files'
       /\ (pc = "raised" /\ err = "OutOfBounds" /\ pc' = "stitch") =>
             files' = files
       /\ (pc = "sized" /\ files # <<>> /\ hist'.last.kind = "str") =>
             /\ hist'.last.name \in DOMAIN files
             /\ \A n \in DOMAIN files : n = hist'.last.name \/ NatLess(n, hist'.last.name)
      ]_vars

\* the walk has just aborted after it wrote cells; their files are in the
\* directory and another run may start from them
C7_Witness ==
    /\ pc = "raised" /\ err = "OutOfBounds"
    /\ Len(hist.written) >= 1
    /\ \A k \in 1..Len(hist.written) : hist.written[k] \in DOMAIN files
    /\ latest_image_name(DOMAIN files).kind = "str"
    /\ runsLeft > 0

\* every tile task of the stitch has ended, by a paste or by exhaustion
TasksEnded ==
    \A k \in 1..Len(st.queue) :
        \/ st.tasks[k].st = "pasted" /\ st.tasks[k].n >= 1
        \/ st.tasks[k].st = "exhausted" /\ st.tasks[k].n = max_retries

\* a tile task of the stitch has made a request
TaskStarted == \E k \in 1..Len(st.queue) : st.tasks[k].n >= 1

\* C9: collect_tiles crops and returns only after every tile task it
\* submitted has ended; so a tile request of a grid cell is made only when
\* the tile tasks of every earlier cell of the walk have ended and the files
\* of those cells are written.
C9_FanInBarrier ==
    /\ [][(pc = "stitch" /\ pc' \notin {"stitch", "killed"}) =>
             (TasksEnded /\ img'.pasted = st.pasted)]_vars
    /\ []((pc = "stitch" /\ st.caller = "walk") =>
             /\ Len(hist.written) = Len(hist.stitched) - 1
             /\ \A k \in 1..Len(hist.written) :
                   /\ CellOf(hist.written[k])
                         = <<hist.stitched[k].i, hist.stitched[k].j>>
                   /\ hist.written[k] \in DOMAIN files)

\* the second cell of a walk makes a tile request; the first cell needed
\* more than one tile
C9_Witness ==
    /\ pc = "stitch" /\ st.caller = "walk"
    /\ TaskStarted
    /\ Len(hist.stitched) = 2
    /\ Len(hist.written) = 1
    /\ Cardinality(files[hist.written[1]].pasted) >= 2

\* where a tile of the stitch lies on the canvas
CanvasOffset(k) ==
    <<(st.queue[k][1] - st.tl_info[1]) * 256, (st.queue[k][2] - st.tl_info[2]) * 256>>

Exhausted == {k \in 1..Len(st.queue) : st.tasks[k].st = "exhausted"}
Pasted == {k \in 1..Len(st.queue) : st.tasks[k].st = "pasted"}

\* C8: a tile whose request fails on every attempt never aborts the
\* stitch: the stitch goes on without an exception, the tiles whose request
\* succeeds are pasted, the region of the failed tile stays blank, the
\* exhaustion is reported, and collect_tiles returns the mosaic.
C8_ExhaustedTileLeavesGap ==
    /\ [](st.caller # "none" =>
            /\ \A k \in Exhausted :
                  /\ st.tasks[k].n = 10
                  /\ st.queue[k] \in st.reported
                  /\ CanvasOffset(k) \notin st.pasted
            /\ \A k \in Pasted : CanvasOffset(k) \in st.pasted
            /\ Exhausted # {} => (pc = "stitch" /\ err = "none")
            /\ (Exhausted # {} /\ TasksEnded) =>
                  ENABLED (check_data_return \/ cell_return))
    /\ [][(pc = "stitch" /\ pc' \notin {"stitch", "killed"}) =>
             /\ pc' \in {"sized", "cell"}
             /\ err' = "none"
             /\ img'.size = <<st.n_tiles_x * 256, st.n_tiles_y * 256>>
             /\ img'.pasted = {CanvasOffset(k) : k \in Pasted}
             /\ img'.blank = {CanvasOffset(k) : k \in Exhausted}]_vars

\* collect_tiles returned a mosaic with a blank tile and a pasted tile
C8_Witness ==
    /\ pc \in {"sized", "cell"}
    /\ img.blank # {}
    /\ img.pasted # {}
    /\ failBudget <= StitchFailBudget - 10

\* the box of the stitch has no or a negative tile span in an axis, or no area
DegenerateSpan(s) ==
    \/ s.n_tiles_x <= 0
    \/ s.n_tiles_y <= 0
    \/ s.tl[1] = s.br[1]
    \/ s.tl[2] = s.br[2]

\* C10: collect_tiles on a box with a zero or negative tile span in an axis,
\* or with no area, fails with an error before any tile request: it never
\* submits tile tasks for such a box and never returns an image of it.
C10_DegenerateBoxFails ==
    ~(pc = "stitch" /\ DegenerateSpan(st))

\* the files of names are those of the first k cells of the grid in
\* row-major order, one file a cell, the last cell of the grid not among them
PrefixOfGrid(names, k) ==
    /\ CellsOf(names) = {c \in GridCells : Idx(c[1], c[2]) < k}
    /\ Cardinality(names) = k
    /\ k < n_images_x * n_images_y

\* C1: for a directory that holds the files of a row-major prefix of the
\* grid, complete_download starts the walk at the row-major successor of the
\* last cell of the prefix and neither stitches nor writes a cell whose file
\* is in the directory.
C1_ResumptionIdempotence ==
    \A k \in 1..Cardinality(hist.dirAtCall) :
        (/\ hist.last = latest_image_name(hist.dirAtCall)
         /\ PrefixOfGrid(hist.dirAtCall, k)
         /\ pc \in {"prompt", "cell", "stitch", "done"}) =>
            /\ Idx(g.i_last, g.j_last) = k
            /\ g.i_last < n_images_x
            /\ \A m \in 1..Len(hist.stitched) :
                  <<hist.stitched[m].i, hist.stitched[m].j>>
                     \notin CellsOf(hist.dirAtCall)
            /\ \A m \in 1..Len(hist.written) :
                  CellOf(hist.written[m]) \notin CellsOf(hist.dirAtCall)

\* the footprint of the cell stitched at (phi, lamda)
Footprint(phi, lamda) ==
    calc_bbox_m(<<phi, lamda>>, <<log.single_img_size.x_m, log.single_img_size.y_m>>)

\* an uninterrupted walk over the whole grid from an empty directory ended
FullWalkDone ==
    /\ pc = "done" /\ ConfirmedWalk
    /\ hist.dirAtCall = {}
    /\ g.bottom_right = <<args.coords[3], args.coords[4]>>
    /\ n_images_x >= 1 /\ n_images_y >= 1
    /\ Len(hist.stitched) = n_images_x * n_images_y

\* C4: after an uninterrupted walk the east edge of the footprint of the
\* cells of the last column is less than one cell width from the east edge
\* of the box, and the south edge of the cells of the last row less than one
\* cell height from the south edge of the box.
C4_GridCompleteness ==
    FullWalkDone =>
        \A m \in 1..Len(hist.stitched) :
            LET c == hist.stitched[m]
                fp == Footprint(c.phi, c.lamda)
            IN  /\ c.i = n_images_x - 1 =>
                      Abs(args.coords[4] - fp[2][2])
                         < log.single_img_size.x_m * FPerM
                /\ c.j = n_images_y - 1 =>
                      Abs(fp[2][1] - args.coords[3])
                         < log.single_img_size.y_m * FPerM

\* the call of get_zoom_from_bounds and its box
ZoomCall == args.fn = "get_zoom_from_bounds"
ZoomSpanX == args.cp_bottom_right.x - args.cp_top_left.x
ZoomSpanY == args.cp_bottom_right.y - args.cp_top_left.y
ZoomSpan == IF ZoomSpanX >= ZoomSpanY THEN ZoomSpanX ELSE ZoomSpanY

\* the span takes more than 640 pixels at zoom z (z >= -1)
ExceedsAt(span, z) ==
    IF z >= args.u THEN ~(span <= 640 \div 2^(z - args.u))
    ELSE span > 640 * 2^(args.u - z)

\* C11: for every box of positive width and height get_zoom_from_bounds
\* returns a zoom z and a size [w, h] with max(w, h) at most the maximum
\* canvas size 640, and at zoom z + 1 the box spans more than 640 pixels.
C11_TightestFit ==
    (ZoomCall /\ pc = "returned" /\ ZoomSpanX > 0 /\ ZoomSpanY > 0) =>
        /\ log.size[1] <= 640
        /\ log.size[2] <= 640
        /\ ExceedsAt(ZoomSpan, log.zoom + 1)

\* C12: get_zoom_from_bounds raises OutOfBounds exactly when the zoom it
\* computes is greater than 22 (the box spans at most 640 pixels at zoom
\* 23), and a zoom it returns is at most 22.
C12_ZoomBound ==
    (ZoomCall /\ pc # "call") =>
        /\ (pc = "raised" /\ err = "OutOfBounds")
              <=> (ZoomSpan > 0 /\ ~ExceedsAt(ZoomSpan, 23))
        /\ pc = "returned" => log.zoom <= 22
        /\ (pc = "raised" /\ err # "OutOfBounds") =>
              (err = "ValueError" /\ ZoomSpan <= 0)

\* the largest box that is refused: it spans 640 pixels at zoom 23
C12_Witness ==
    /\ ZoomCall
    /\ args.u = 24
    /\ pc = "raised" /\ err = "OutOfBounds"
    /\ ZoomSpan = 1280

\* C13: get_map_dim_m fails with an error for every degenerate input, a
\* field of view of 180 degrees or more or an altitude of 0 or less, and
\* returns no width and height for it.
C13_DegenerateFootprintFails ==
    (args.fn = "get_map_dim_m" /\ pc # "call"
       /\ (args.fov_d >= 180 \/ args.agl_m <= 0)) =>
        (pc = "raised" /\ err # "none")

\* C14: for a point (lat, lon) get_utm_epsg returns the code of zone
\* floor((lon + 180) / 6) + 1 with the prefix 326 when lat >= 0 and 327 when
\* lat < 0: the code is always this function of (lat, lon).
C14_UtmZone ==
    (args.fn = "get_utm_epsg" /\ pc # "call") =>
        /\ pc = "returned"
        /\ log.code % 100 = ((args.coords[2] + 1800) \div 60) + 1
        /\ log.code \div 100 = (IF args.coords[1] < 0 THEN 327 ELSE 326)

\* a point on the equator, at the west edge of a zone
C14_Witness ==
    /\ args.fn = "get_utm_epsg" /\ pc = "returned"
    /\ args.coords = <<0, -60>>
    /\ log.code = 32630

\* C15: within one walk each cell writes exactly one file, and the names of
\* different cells differ: no write of the walk goes to a name an earlier
\* cell of the walk wrote.
C15_UniqueNames ==
    /\ \A a, b \in 1..Len(hist.written) :
          a # b => hist.written[a] # hist.written[b]
    /\ Len(hist.stitched) - Len(hist.written) \in {0, 1}
    /\ \A k \in 1..Len(hist.written) :
          /\ hist.written[k].i = hist.stitched[k].i
          /\ hist.written[k].j = hist.stitched[k].j
    /\ \A a, b \in 1..Len(hist.stitched) :
          a # b => <<hist.stitched[a].i, hist.stitched[a].j>>
                      # <<hist.stitched[b].i, hist.stitched[b].j>>

\* a walk wrote two cells of one row and a cell of the next row
C15_Witness ==
    /\ Len(hist.written) >= 3
    /\ hist.written[1].j = hist.written[2].j
    /\ hist.written[1].phi = hist.written[2].phi
    /\ hist.written[3].j # hist.written[2].j

\* the files of names are those of the first k cells of the grid in
\* row-major order, one file a cell
PrefixCells(names, k) ==
    /\ CellsOf(names) = {c \in GridCells : Idx(c[1], c[2]) < k}
    /\ Cardinality(names) = k

\* C17: for a directory that holds the files of a row-major prefix of the
\* grid, the name complete_download takes as the latest is the file of the
\* cell with the greatest row-major index among those present.
C17_LatestIsLastCell ==
    \A k \in 1..Cardinality(DOMAIN files) :
        (pc = "sized" /\ PrefixCells(DOMAIN files, k)) =>
            LET latest == latest_image_name(DOMAIN files).name
            IN  Idx(latest.i, latest.j) = k - 1

\* cell_m metres times (1 - overlap / 100), in projected units
OverlapStep(cell_m, ov) ==
    cell_m * XYPerM - (cell_m * XYPerM * ov) \div (100 * OvDen)

\* C18: a resumed run that is not yet complete starts at the cell after the
\* one its latest file names: in the same row one column further, x one
\* overlap step of the cell width east of that file's position and y
\* unchanged, or, after the last column, in column 0 of the next row, y one
\* overlap step of the cell height south and x at the left edge, the x every
\* row end of the walk returns to.
C18_ResumeStep ==
    [][/\ (pc # "prompt" /\ pc' = "prompt" /\ hist'.last.kind = "str") =>
             LET name == hist'.last.name
                 xy == geo2utm(name.phi, name.lamda)
             IN  IF name.i < log.n_raster_imgs.x - 1
                 THEN /\ <<g'.i, g'.j>> = <<name.i + 1, name.j>>
                      /\ g'.x = xy[1] + OverlapStep(log.single_img_size.x_m,
                                                    overlap)
                      /\ g'.y = xy[2]
                 ELSE /\ <<g'.i, g'.j>> = <<0, name.j + 1>>
                      /\ g'.y = xy[2] - OverlapStep(log.single_img_size.y_m,
                                                    overlap)
                      /\ g'.x = g'.x_left
       /\ (pc = "cell" /\ pc' = "cell" /\ g'.j = g.j + 1) =>
             /\ g'.x = g.x_left
             /\ g'.x_left = g.x_left
             /\ g.x_left = geo2utm(meters2geo(<<args.coords[1], args.coords[2]>>,
                                     <<log.single_img_size.x_m,
                                       log.single_img_size.y_m>>)[1][1],
                                   meters2geo(<<args.coords[1], args.coords[2]>>,
                                     <<log.single_img_size.x_m,
                                       log.single_img_size.y_m>>)[1][2])[1]
       /\ (pc # "prompt" /\ pc' = "prompt") =>
             g'.x_left = geo2utm(meters2geo(<<args.coords[1], args.coords[2]>>,
                                     <<log.single_img_size.x_m,
                                       log.single_img_size.y_m>>)[1][1],
                                   meters2geo(<<args.coords[1], args.coords[2]>>,
                                     <<log.single_img_size.x_m,
                                       log.single_img_size.y_m>>)[1][2])[1]
      ]_vars

\* a run resumed from the file of the last cell of a row waits at the prompt
\* with its cursor at column 0 of the next row
C18_Witness ==
    /\ pc = "prompt"
    /\ hist.last.kind = "str"
    /\ hist.last.name.i = log.n_raster_imgs.x - 1
    /\ log.n_raster_imgs.x > 1
    /\ <<g.i, g.j>> = <<0, hist.last.name.j + 1>>
    /\ g.x = g.x_left

\* the walk of this call began in the Starting state and has requested cells
FromStarting ==
    /\ pc \in {"cell", "stitch", "done"}
    /\ hist.last = IntName(-1)
    /\ Len(hist.stitched) >= 1

\* distance of the requested centre of the k-th cell of the walk from
\* (x0 + c * sx, y0 - r * sy), in projected units along each axis
CentreError(k) ==
    LET c == hist.stitched[k]
        p == geo2utm(c.phi, c.lamda)
        o == geo2utm(g.top_left[1], g.top_left[2])
        sx == OverlapStep(log.single_img_size.x_m, g.ov)
        sy == OverlapStep(log.single_img_size.y_m, g.ov)
    IN  <<Abs(p[1] - (o[1] + c.i * sx)), Abs(p[2] - (o[2] - c.j * sy))>>

\* C19: in a walk from the Starting state the cell of column c and row r is
\* requested with its centre at (x0 + c * sx, y0 - r * sy), up to a tenth of
\* a metre, where (x0, y0) is the projection of the top-left corner of the
\* box and sx, sy are the overlap steps of the cell width and height.
C19_CellCentres ==
    FromStarting =>
        \A k \in 1..Len(hist.stitched) :
            /\ CentreError(k)[1] <= XYPerM \div 10
            /\ CentreError(k)[2] <= XYPerM \div 10

\* the tile of task k has been pasted
Succeeded(k) == PasteOffset(st, st.queue[k]) \in st.pasted

\* C20: a tile task makes at least one and at most max_retries requests: no
\* task has made more, every ended task has made at least one, a task gives
\* up only after max_retries of them, and a task whose tile is pasted makes
\* no further request. A request changes the count and the state of its own
\* task only, so the count of one tile does not depend on what happens to
\* the others.
C20_AttemptsPerTile ==
    /\ [](pc = "stitch" =>
            \A k \in 1..Len(st.queue) :
                /\ st.tasks[k].n \in 0..max_retries
                /\ st.tasks[k].st = "queued" <=> st.tasks[k].n = 0
                /\ st.tasks[k].st = "pasted" => st.tasks[k].n >= 1
                /\ st.tasks[k].st = "exhausted" => st.tasks[k].n = max_retries
                /\ (st.tasks[k].st = "running" /\ ~Succeeded(k)) =>
                       st.tasks[k].n < max_retries)
    /\ [][(pc = "stitch" /\ pc' = "stitch") =>
            /\ \A k \in 1..Len(st.queue) :
                  Succeeded(k) => st'.tasks[k] = st.tasks[k]
            /\ \A k, m \in 1..Len(st.queue) :
                  (st'.tasks[k] # st.tasks[k] /\ m # k) =>
                      /\ st'.tasks[m] = st.tasks[m]
                      /\ st'.tasks[k].n = st.tasks[k].n + 1
         ]_vars

\* a stitch of several tiles has ended: one tile was given up after
\* max_retries requests while another was pasted at its first request
C20_Witness ==
    /\ pc = "stitch"
    /\ AllTerminated(st)
    /\ \E k, m \in 1..Len(st.queue) :
          /\ st.tasks[k] = [st |-> "exhausted", n |-> max_retries]
          /\ st.tasks[m] = [st |-> "pasted", n |-> 1]

\* the pixel of the world map at zoom that holds loc, counted from the
\* meridian and the equator
GlobalPx(loc, zoom) ==
    <<loc[2] \div 2^(24 - zoom), (-loc[1]) \div 2^(24 - zoom)>>

\* the bottom-right corner of the stitch lies east and south of the top-left
WellOrdered(s) == s.br[2] >= s.tl[2] /\ s.br[1] <= s.tl[1]

\* C21: for a box whose bottom-right corner is east and south of its
\* top-left corner the canvas is (tilesX * 256, tilesY * 256) with tilesX/Y
\* the tile index span + 1, the crop window starts at the pixel offset of
\* the top-left corner in its tile, lies inside the canvas, and its width
\* and height are the pixel distances of the two corners at the zoom of the
\* stitch, 256 * span + bottom-right offset - top-left offset.
C21_CanvasAndCrop ==
    (pc = "stitch" /\ WellOrdered(st)) =>
        LET c == Crop(st)
            span_x == st.br_info[1] - st.tl_info[1]
            span_y == st.br_info[2] - st.tl_info[2]
            ptl == GlobalPx(st.tl, st.zoom)
            pbr == GlobalPx(st.br, st.zoom)
        IN  /\ span_x >= 0 /\ span_y >= 0
            /\ c.size = <<(span_x + 1) * 256, (span_y + 1) * 256>>
            /\ <<c.box[1], c.box[2]>> = <<st.tl_info[3], st.tl_info[4]>>
            /\ 0 <= c.box[1] /\ c.box[1] <= c.box[3] /\ c.box[3] <= c.size[1]
            /\ 0 <= c.box[2] /\ c.box[2] <= c.box[4] /\ c.box[4] <= c.size[2]
            /\ c.box[3] - c.box[1] = 256 * span_x + st.br_info[3] - st.tl_info[3]
            /\ c.box[4] - c.box[2] = 256 * span_y + st.br_info[4] - st.tl_info[4]
            /\ c.box[3] - c.box[1] = pbr[1] - ptl[1]
            /\ c.box[4] - c.box[2] = pbr[2] - ptl[2]

\* a stitch over two tile columns has ended, the top-left corner inside
\* its tile: the crop discards padding on every side
C21_Witness ==
    /\ pc = "stitch"
    /\ WellOrdered(st)
    /\ AllTerminated(st)
    /\ st.n_tiles_x >= 2
    /\ st.tl_info[3] > 0 /\ st.tl_info[4] > 0
    /\ Crop(st).box[3] < Crop(st).size[1]
    /\ Crop(st).box[4] < Crop(st).size[2]

\* the tiles of the rectangular index range of the stitch
TileRange(s) ==
    (s.tl_info[1]..s.br_info[1]) \X (s.tl_info[2]..s.br_info[2])

\* the 256 x 256 regions pasted at offsets a and b share no pixel
DisjointRegions(a, b) ==
    \/ Abs(a[1] - b[1]) >= 256
    \/ Abs(a[2] - b[2]) >= 256

\* C22: one task is submitted for every tile of the rectangular index range
\* and for no other; the paste regions of two different tiles share no pixel
\* and lie inside the canvas; so what the canvas holds is fixed by which
\* tiles were pasted, whatever the order in which the tasks ran and ended.
C22_DisjointPastes ==
    pc = "stitch" =>
        /\ {st.queue[k] : k \in 1..Len(st.queue)} = TileRange(st)
        /\ Len(st.queue) = Cardinality(TileRange(st))
        /\ \A k \in 1..Len(st.queue) :
              LET o == PasteOffset(st, st.queue[k])
              IN  /\ 0 <= o[1] /\ o[1] + 256 <= st.n_tiles_x * 256
                  /\ 0 <= o[2] /\ o[2] + 256 <= st.n_tiles_y * 256
        /\ \A k, m \in 1..Len(st.queue) :
              k # m => DisjointRegions(PasteOffset(st, st.queue[k]),
                                       PasteOffset(st, st.queue[m]))
        /\ st.pasted = {PasteOffset(st, st.queue[k]) : k \in Pasted}
        /\ Cardinality(st.pasted) = Cardinality(Pasted)

\* a stitch of several tiles has ended with the later tile of the queue
\* pasted before the earlier one made its last request
C22_Witness ==
    /\ pc = "stitch"
    /\ Len(st.queue) >= 2
    /\ st.tasks[2].st = "pasted"
    /\ st.tasks[1].st = "running"
    /\ Cardinality(st.pasted) = 1

\* the stitch of a cell has ended and every tile of it exhausted its retries
FullyDegraded ==
    /\ pc = "stitch"
    /\ st.caller = "walk"
    /\ Len(st.queue) >= 1
    /\ \A k \in 1..Len(st.queue) : st.tasks[k].st = "exhausted"

\* C23: a cell of which every tile exhausted its retries is produced all the
\* same: the return of its stitch writes the file under the cell's name
\* without an exception and moves the walk to the next column, and a later
\* run that finds that file as the latest starts after the cell (or finds
\* the mission complete) instead of fetching the cell again.
C23_DegradedCellProduced ==
    [][/\ (FullyDegraded /\ pc' \notin {"stitch", "killed"}) =>
             /\ pc' = "cell" /\ err' = "none"
             /\ \E n \in DOMAIN files' :
                   /\ <<n.i, n.j>> = <<g.i, g.j>>
                   /\ files'[n].pasted = {} /\ files'[n].blank # {}
                   /\ DOMAIN files' = DOMAIN files \cup {n}
                   /\ \A m \in DOMAIN files \ {n} : files'[m] = files[m]
             /\ <<g'.i, g'.j>> = <<g.i + 1, g.j>>
       /\ (/\ pc = "sized" /\ pc' # "killed"
           /\ files # <<>>
           /\ hist'.last = latest_image_name(DOMAIN files)
           /\ files[latest_image_name(DOMAIN files).name].pasted = {}) =>
             LET name == latest_image_name(DOMAIN files).name
             IN  \/ /\ pc' = "done"
                    /\ Idx(name.i, name.j) = n_images_x * n_images_y - 1
                 \/ /\ pc' = "prompt"
                    /\ Idx(g'.i, g'.j) = Idx(name.i, name.j) + 1
      ]_vars

\* a run resumed from the file of a fully degraded cell (0,0) waits at the
\* prompt with its cursor at cell (1,0)
C23_Witness ==
    /\ pc = "prompt"
    /\ hist.last.kind = "str"
    /\ <<hist.last.name.i, hist.last.name.j>> = <<0, 0>>
    /\ files[hist.last.name].pasted = {}
    /\ files[hist.last.name].blank # {}
    /\ <<g.i, g.j>> = <<1, 0>>

\* the confirmed walk is in its loop
Walking == ConfirmedWalk /\ pc \in {"cell", "stitch"}

\* C24: when every tile request returns, a confirmed walk ends, unless the
\* process is terminated from outside: it reaches the end of
\* gen_raster_from_map after it wrote the last cell (cols - 1, rows - 1), or
\* it raises the bounds violation; on the way it starts at most cols * rows
\* cells and no tile task makes more than 10 requests.
C24_WalkTerminates ==
    /\ Walking ~> (pc \in {"done", "raised", "killed"})
    /\ [](ConfirmedWalk =>
            /\ Len(hist.stitched) <= n_images_x * n_images_y
            /\ \A k \in 1..Len(st.queue) : st.tasks[k].n <= 10
            /\ pc = "raised" => err = "OutOfBounds"
            /\ pc = "done" =>
                  /\ Len(hist.written) >= 1
                  /\ LET last == hist.written[Len(hist.written)]
                     IN  <<last.i, last.j>> = <<n_images_x - 1, n_images_y - 1>>)

\* a confirmed walk over four cells ended although a tile request failed
C24_Witness ==
    /\ pc = "done" /\ ConfirmedWalk
    /\ Len(hist.stitched) = n_images_x * n_images_y
    /\ n_images_x * n_images_y >= 4
    /\ failBudget < FailBudget

\* the zoom get_zoom_from_bounds gives for the box of the first image of
\* the mission
RasterZoom ==
    LET box == meters2geo(<<args.coords[1], args.coords[2]>>,
                          <<log.single_img_size.x_m, log.single_img_size.y_m>>)
    IN  get_zoom_from_bounds(box[1], box[2]).zoom

\* C25: the zoom of the raster is computed once by get_zoom_from_bounds, for
\* the box of the first image, and used for every cell: the stitch of every
\* cell is called with it, and every file name written by the walk, in this
\* run or an earlier one, carries it.
C25_OneZoom ==
    /\ (pc = "stitch" /\ st.caller = "walk") =>
          /\ g.raster_zoom = RasterZoom
          /\ st.zoom = Min2(RasterZoom + args.res_level, 22)
    /\ \A k \in 1..Len(hist.written) : hist.written[k].zoom = RasterZoom
    /\ \A n \in DOMAIN files : n.zoom = RasterZoom

\* the stitch of a later cell of a walk, at a zoom that is not the zoom of
\* the map image
C25_Witness ==
    /\ pc = "stitch" /\ st.caller = "walk"
    /\ Len(hist.written) >= 2
    /\ log.map_size.zoom # g.raster_zoom
    /\ st.zoom = g.raster_zoom

\* C26: a call of gen_raster_from_map that leaves last_img_name to its
\* default behaves as a call with -1: it raises no TypeError and starts
\* with the indices (0, 0) and the cursor on the top-left corner.
C26_DefaultIsStart ==
    hist.last = IntName(-10) =>
        /\ ~(pc = "raised" /\ err = "TypeError")
        /\ pc = "prompt" =>
              /\ <<g.i, g.j>> = <<0, 0>>
              /\ <<g.phi, g.lamda>> = g.top_left

\* the projected cursor (x, y) of an uninterrupted walk when it requests
\* cell (c, r): from tlm, one step east a column, one step south a row
WalkPos(c, r) ==
    LET box == meters2geo(<<args.coords[1], args.coords[2]>>,
                          <<log.single_img_size.x_m, log.single_img_size.y_m>>)
        tlm == geo2utm(box[1][1], box[1][2])
    IN  <<tlm[1] + c * Step(log.single_img_size.x_m, overlap),
          tlm[2] - r * Step(log.single_img_size.y_m, overlap)>>

\* the centre (phi, lamda) an uninterrupted walk requests cell (c, r) with:
\* the latitude is set at the start of the row, the longitude at every cell
WalkCentre(c, r) ==
    <<IF r = 0 THEN args.coords[1]
      ELSE utm2geo(WalkPos(0, r)[1], WalkPos(0, r)[2])[1],
      IF r = 0 /\ c = 0 THEN args.coords[2]
      ELSE utm2geo(WalkPos(c, r)[1], WalkPos(c, r)[2])[2]>>

\* the file name an uninterrupted walk writes for cell (c, r)
WalkName(c, r) ==
    OutName(c, r, WalkCentre(c, r)[1], WalkCentre(c, r)[2], RasterZoom)

\* the run took its cursor from the latest file of the directory
Resumed ==
    /\ hist.last.kind = "str"
    /\ hist.last = latest_image_name(hist.dirAtCall)

\* C27: the cursor a resumed run derives from the file of cell (c, r) is,
\* within a tenth of a metre, the position at which the uninterrupted walk
\* requests the successor of (c, r), and the files of an interrupted and
\* resumed mission carry the names the uninterrupted mission writes.
C27_ResumeEquivalence ==
    /\ (Resumed /\ pc = "prompt") =>
          /\ Abs(g.x - WalkPos(g.i, g.j)[1]) <= XYPerM \div 10
          /\ Abs(g.y - WalkPos(g.i, g.j)[2]) <= XYPerM \div 10
    /\ (g.bottom_right = <<args.coords[3], args.coords[4]>>) =>
          \A k \in 1..Len(hist.written) :
              hist.written[k] = WalkName(hist.written[k].i, hist.written[k].j)

\* C28: the overlap means the same in sizing and in stepping: the step of
\* the walk, raster_w * (100 - overlap) / 100, is the cell size times the
\* (1 - overlap) that check_data divided by, so the cols steps of a row fit
\* in the width of the map and the rows steps in its height.
C28_OverlapConsistent ==
    pc \in {"prompt", "cell", "stitch"} /\ st.caller # "check_data" =>
        /\ Step(log.single_img_size.x_m, g.ov) * OvDen
              = log.single_img_size.x_m * XYPerM * (OvDen - overlap)
        /\ Step(log.single_img_size.y_m, g.ov) * OvDen
              = log.single_img_size.y_m * XYPerM * (OvDen - overlap)
        /\ n_images_x * Step(log.single_img_size.x_m, g.ov) <= log.map_size.x_m
        /\ n_images_y * Step(log.single_img_size.y_m, g.ov) <= log.map_size.y_m

\* C29: for every point with latitude in [-90, 90] and longitude in
\* [-180, 180] the zone number of the code get_utm_epsg returns is one of
\* 1..60.
C29_ZoneInRange ==
    (/\ args.fn = "get_utm_epsg" /\ pc # "call"
     /\ args.coords[1] \in -900..900
     /\ args.coords[2] \in -1800..1800) =>
        /\ pc = "returned"
        /\ log.code % 100 \in 1..60

\* the answers that are 'y' or 'yes' up to case and surrounding whitespace
YesAnswers == {"y", "yes", " Y ", "YES"}

\* C30: gen_raster_from_map issues no stitch of a cell and writes no file
\* unless the answer to its prompt is 'y' or 'yes', in any case and with any
\* surrounding whitespace: nothing is stitched or written before the answer,
\* and any other answer ends the call with the files as they were.
C30_ConfirmationGate ==
    /\ []((hist.stitched # <<>> \/ hist.written # <<>> \/ hist.fetched
             \/ (pc = "stitch" /\ st.caller = "walk")) =>
            (hist.prompted /\ hist.response \in YesAnswers))
    /\ []((hist.prompted /\ hist.response \notin YesAnswers) =>
            /\ pc = "done" /\ err = "none"
            /\ DOMAIN files = hist.dirAtCall)
    /\ [][pc = "prompt" =>
            IF hist'.response \in YesAnswers /\ pc' # "killed"
            THEN files' = files /\ pc' \in {"cell", "done"}
            ELSE files' = files /\ pc' \in {"done", "killed"}]_vars

\* the user declined a run that found files of an earlier run: the call
\* ended, the files are those it found
C30_Witness ==
    /\ pc = "done"
    /\ hist.prompted /\ hist.response = "n"
    /\ hist.dirAtCall # {}
    /\ DOMAIN files = hist.dirAtCall
    /\ hist.stitched = <<>>
====
